---- MODULE Spec2Model ----
(***************************************************************************)
(* A model of src/app.py: the Flask endpoint upload_and_analyze and the    *)
(* report generators it calls.  One request is followed from its arrival   *)
(* to its single response.  Text (file names, column names) is a sequence  *)
(* of one-character strings so that the string operations of the code      *)
(* (rsplit, lower, strip, the two regex replacements, secure_filename)     *)
(* are computed character by character.                                     *)
(***************************************************************************)
EXTENDS Integers, Sequences, FiniteSets, TLC

(***************************************************************************)
(* Characters and the string primitives of the code                        *)
(***************************************************************************)
UpperChars == <<"A", "B", "C", "D", "E", "F", "G", "H", "I", "J", "K", "L", "M", "N", "O", "P", "Q", "R", "S", "T", "U", "V", "W", "X", "Y", "Z">>

LowerChars == <<"a", "b", "c", "d", "e", "f", "g", "h", "i", "j", "k", "l", "m", "n", "o", "p", "q", "r", "s", "t", "u", "v", "w", "x", "y", "z">>

DigitChars == <<"0", "1", "2", "3", "4", "5", "6", "7", "8", "9">>

Range(s) == {s[i] : i \in DOMAIN s}

\* A character outside ASCII with no ASCII decomposition (a CJK ideograph).
NonAscii == "U+65E5"

Whitespace == {" ", "\t"}

\* str.lower() on one character.
LowerChar(c) ==
    IF c \in Range(UpperChars)
    THEN LowerChars[CHOOSE i \in DOMAIN UpperChars : UpperChars[i] = c]
    ELSE c

\* str.lower()
Lower(s) == [i \in DOMAIN s |-> LowerChar(s[i])]

\* s[a..b] as Python's s[a-1:b]; empty when a > b.
Slice(s, a, b) == IF a > b THEN <<>> ELSE SubSeq(s, a, b)

\* Positions of c in s.
Positions(s, c) == {i \in DOMAIN s : s[i] = c}

Max(S) == CHOOSE x \in S : \A y \in S : y <= x

Min(S) == CHOOSE x \in S : \A y \in S : x <= y

\* s.rsplit('.', 1): one part when s has no dot, else the text before the
\* last dot and the text after it.
RSplitDot(s) ==
    IF Positions(s, ".") = {}
    THEN <<s>>
    ELSE LET p == Max(Positions(s, "."))
         IN  <<Slice(s, 1, p - 1), Slice(s, p + 1, Len(s))>>

\* str.strip() with a set of characters to strip.
StripChars(s, cs) ==
    LET keep == {i \in DOMAIN s : s[i] \notin cs}
    IN  IF keep = {} THEN <<>> ELSE Slice(s, Min(keep), Max(keep))

\* The characters of s that satisfy keep, in order.
RECURSIVE FilterChars(_, _)
FilterChars(s, keep) ==
    IF s = <<>> THEN <<>>
    ELSE IF Head(s) \in keep
         THEN <<Head(s)>> \o FilterChars(Tail(s), keep)
         ELSE FilterChars(Tail(s), keep)

(***************************************************************************)
(* Configuration (app.config)                                               *)
(***************************************************************************)
MAX_FILE_SIZE == 150 * 1024 * 1024

ALLOWED_EXTENSIONS == {<<"c", "s", "v">>, <<"x", "l", "s", "x">>}

\* allowed_file without the membership test: any name with a dot passes.
allowed_file_any_extension(filename) == Positions(filename, ".") # {}

\* '.' in filename and filename.rsplit('.', 1)[1].lower() in ALLOWED_EXTENSIONS
allowed_file(filename) ==
    /\ Positions(filename, ".") # {}
    /\ Lower(RSplitDot(filename)[2]) \in ALLOWED_EXTENSIONS

(***************************************************************************)
(* werkzeug.utils.secure_filename                                           *)
(***************************************************************************)
\* [A-Za-z0-9_.-], the characters _filename_ascii_strip_re keeps.
FilenameChars ==
    Range(UpperChars) \cup Range(LowerChars) \cup Range(DigitChars) \cup {"_", ".", "-"}

\* s with its leading characters in cs dropped.
RECURSIVE DropLeading(_, _)
DropLeading(s, cs) ==
    IF s # <<>> /\ Head(s) \in cs THEN DropLeading(Tail(s), cs) ELSE s

\* re.sub('[cs]+', r, s): every maximal run of characters of cs becomes r.
RECURSIVE CollapseRuns(_, _, _)
CollapseRuns(s, cs, r) ==
    IF s = <<>> THEN <<>>
    ELSE IF Head(s) \in cs
         THEN <<r>> \o CollapseRuns(DropLeading(Tail(s), cs), cs, r)
         ELSE <<Head(s)>> \o CollapseRuns(Tail(s), cs, r)

\* unicodedata.normalize("NFKD", s).encode("ascii", "ignore"): a character
\* without an ASCII decomposition is dropped.
AsciiOnly(s) == FilterChars(s, Range(s) \ {NonAscii})

\* s.replace(os.sep, " ")
ReplaceSep(s) == [i \in DOMAIN s |-> IF s[i] = "/" THEN " " ELSE s[i]]

\* "_".join(s.split()): surrounding whitespace is dropped and every run of
\* whitespace inside becomes one underscore.
JoinWords(s) == CollapseRuns(StripChars(s, Whitespace), Whitespace, "_")

secure_filename(name) ==
    StripChars(FilterChars(JoinWords(ReplaceSep(AsciiOnly(name))), FilenameChars),
               {".", "_"})

(***************************************************************************)
(* Column-name sanitisation (upload_and_analyze, "Sanitize column names")   *)
(***************************************************************************)
\* [a-z0-9_]
WordChars == Range(LowerChars) \cup Range(DigitChars) \cup {"_"}

\* .str.replace(r'[^a-z0-9_]', '_', regex=True)
ReplaceNonWord(s) == [i \in DOMAIN s |-> IF s[i] \in WordChars THEN s[i] ELSE "_"]

\* .str.strip().str.lower().str.replace(r'[^a-z0-9_]', '_').str.replace(r'_+', '_')
SanitizeName(s) ==
    CollapseRuns(ReplaceNonWord(Lower(StripChars(s, Whitespace))), {"_"}, "_")

(***************************************************************************)
(* Inputs: what a request can carry                                         *)
(***************************************************************************)
\* Largest row count of an uploaded table.
MaxRows == 10001

\* chunk_size of generate_full_data_pdf.
chunk_size == 5000

\* Row counts around the chunk boundaries.
RowCounts == {0, 1, chunk_size - 1, chunk_size, chunk_size + 1, 2 * chunk_size, MaxRows}

Col(name, kind) == [name |-> name, kind |-> kind]

\* Header rows as the parsers return them: names are non-empty and pairwise
\* distinct (an empty header cell is named "Unnamed: n", a repeated one gets
\* a ".n" suffix); a column holds numbers ("num") or text ("text").
Headers ==
    { <<Col(<<"i", "d">>, "num")>>,
      <<Col(<<"n", "a", "m", "e">>, "text")>>,
      <<Col(<<"A">>, "num"), Col(<<"a">>, "num")>>,
      <<Col(<<" ">>, "text"), Col(<<"x">>, "num")>>,
      <<Col(<<"Q", "t", "y", " ", "(", "$", ")">>, "num"), Col(<<" ", "N", "a", "m", "e", " ">>, "text")>>,
      <<Col(<<"a", "-", "b">>, "text"), Col(<<"a", " ", "b">>, "text")>> }

\* A parsed table (pandas DataFrame): its columns, its number of rows (row k
\* is identified by its position k), and whether the column labels are
\* strings (a spreadsheet header of numbers gives an integer index, and so
\* does the DataFrame() returned for a sheet without any cell).
Frame(columns, nrows, strcols) ==
    [columns |-> columns, nrows |-> nrows, strcols |-> strcols]

\* The columns of a table without rows: with no value to infer a type from,
\* the parsers give every column the object type.
Untyped(columns) == [k \in DOMAIN columns |-> Col(columns[k].name, "text")]

\* What the uploaded bytes hold: nothing, something no parser accepts, or a
\* table in the format the file name declares.  A sheet without any cell is
\* a table without columns and rows.
Contents ==
    {[kind |-> "empty", frame |-> Frame(<<>>, 0, TRUE)],
     [kind |-> "garbage", frame |-> Frame(<<>>, 0, TRUE)],
     [kind |-> "table", frame |-> Frame(<<>>, 0, FALSE)],
     [kind |-> "table", frame |-> Frame(<<Col(<<"i", "d">>, "num")>>, 1, FALSE)]}
    \cup {[kind |-> "table", frame |-> Frame(IF n = 0 THEN Untyped(h) ELSE h, n, TRUE)] :
             h \in Headers, n \in RowCounts}

\* len(file_bytes) of the uploads considered.
Sizes == {0, MAX_FILE_SIZE, MAX_FILE_SIZE + 1}

\* The uploads: a size and a content; only the empty file has size 0.
Uploads ==
    {u \in [size : Sizes, content : Contents] : (u.size = 0) <=> (u.content.kind = "empty")}

FileNames ==
    { <<>>,
      <<"d", "a", "t", "a", ".", "c", "s", "v">>,
      <<"R", "e", "p", "o", "r", "t", ".", "X", "L", "S", "X">>,
      <<"m", "y", " ", "f", "i", "l", "e", ".", "c", "s", "v">>,
      <<"n", "o", "t", "e", "s", ".", "t", "x", "t">>,
      <<"c", "s", "v">>,
      <<".", "c", "s", "v">>,
      <<NonAscii, ".", "x", "l", "s", "x">>,
      <<"a", ".", "b", ".", "x", "l", "s", "x">> }

SUMMARY == <<"s", "u", "m", "m", "a", "r", "y">>

FULL_DATA == <<"f", "u", "l", "l", "_", "d", "a", "t", "a">>

PDF == <<"p", "d", "f">>

CSV == <<"c", "s", "v">>

EXCEL == <<"e", "x", "c", "e", "l">>

XLSX == <<"x", "l", "s", "x">>

ReportTypes == {SUMMARY, <<"S", "u", "m", "m", "a", "r", "y">>, FULL_DATA, <<"b", "o", "t", "h">>}

OutputFormats == {PDF, CSV, EXCEL, <<"x", "m", "l">>}

PageSizes == {"A4", "A3", "A2", "A1", "Letter"}

(***************************************************************************)
(* Parsers (pandas.read_csv, pandas.read_excel)                             *)
(***************************************************************************)
\* The result of a call that may raise: raised, or a value.
Raised == [raised |-> TRUE, value |-> <<>>]

Returned(v) == [raised |-> FALSE, value |-> <<v>>]

\* pd.read_csv: raises on an empty file (EmptyDataError), on bytes it cannot
\* tokenize (ParserError) and on a file without a header line ("No columns to
\* parse from file"); the header names it returns are always strings.
read_csv(content) ==
    IF content.kind # "table" \/ content.frame.columns = <<>>
    THEN Raised
    ELSE Returned([content.frame EXCEPT !.strcols = TRUE])

\* pd.read_excel: raises on bytes that are no workbook; an empty sheet gives
\* a frame without columns.
read_excel(content) ==
    IF content.kind # "table" THEN Raised ELSE Returned(content.frame)

(***************************************************************************)
(* generate_summary_df                                                      *)
(***************************************************************************)
NumericStats == <<"count", "mean", "std", "min", "25%", "50%", "75%", "max">>

ObjectStats == <<"count", "unique", "top", "freq">>

Names(columns) == [i \in DOMAIN columns |-> columns[i].name]

RECURSIVE SelectKind(_, _)
SelectKind(columns, kind) ==
    IF columns = <<>> THEN <<>>
    ELSE IF Head(columns).kind = kind
         THEN <<Head(columns)>> \o SelectKind(Tail(columns), kind)
         ELSE SelectKind(Tail(columns), kind)

\* DataFrame.describe() with its defaults: the numeric columns when there is
\* one; otherwise every column, described as objects (count, unique, top,
\* freq); a frame without columns raises ValueError.
describe(df) ==
    IF df.columns = <<>> THEN Raised
    ELSE IF SelectKind(df.columns, "num") # <<>>
         THEN Returned([index |-> NumericStats,
                        columns |-> Names(SelectKind(df.columns, "num"))])
         ELSE Returned([index |-> ObjectStats, columns |-> Names(df.columns)])

STATISTIC == <<"S", "t", "a", "t", "i", "s", "t", "i", "c">>

\* df.describe().reset_index().rename(columns={'index': 'Statistic'}).round(2):
\* the statistic labels become the first column, named Statistic.
generate_summary_df(df) ==
    LET d == describe(df)
    IN  IF d.raised THEN Raised
        ELSE Returned([columns |-> <<STATISTIC>> \o d.value[1].columns,
                       stats |-> d.value[1].index])

\* DataFrame.empty: some axis has length 0.
IsEmpty(summary) == summary.columns = <<>> \/ summary.stats = <<>>

(***************************************************************************)
(* Flowables of a PDF story                                                  *)
(***************************************************************************)
Paragraph(text) == [type |-> "Paragraph", text |-> text, data |-> <<>>]

Spacer == [type |-> "Spacer", text |-> "", data |-> <<>>]

\* reportlab's Table raises ValueError for data without a row or a column.
TableRaises(nrows, ncols) == nrows = 0 \/ ncols = 0

Table(data) == [type |-> "Table", text |-> "", data |-> data]

\* A report buffer: the format written, which report it holds, and what was
\* written (the page size and story of a PDF; the columns, statistic labels
\* and row count of a CSV or spreadsheet).
Buffer(format, report, pagesize, st, columns, labels, nrows) ==
    [format |-> format, report |-> report, pagesize |-> pagesize, story |-> st,
     columns |-> columns, labels |-> labels, nrows |-> nrows]

\* generate_reportlab_pdf up to doc.build: the story, or raised when
\* generate_summary_df raises.
SummaryStory(df) ==
    LET s == generate_summary_df(df)
        top == <<Paragraph("Data Analysis Report"), Paragraph("Generated on"), Spacer,
                 Paragraph("Total Records"), Spacer>>
    IN  IF s.raised THEN Raised
        ELSE LET numeric_summary == s.value[1]
                 numeric_data == <<numeric_summary.columns>>
                                 \o [k \in DOMAIN numeric_summary.stats |->
                                        <<numeric_summary.stats[k]>>]
             IN  IF ~IsEmpty(numeric_summary)
                 THEN Returned(top \o <<Paragraph("Numeric Column Statistics:"),
                                        Table(numeric_data)>>)
                 ELSE Returned(top \o <<Paragraph("No numeric columns found.")>>)

\* The slice started one row late: df.iloc[i + 1:j].
IlocFromNext(df, i, j) ==
    LET last == IF j < df.nrows THEN j ELSE df.nrows
    IN  [k \in 1..(last - i - 1) |-> i + 1 + k]

\* df.iloc[i:j].values.tolist(): rows i+1 .. min(j, len(df)), in order.
Iloc(df, i, j) ==
    LET last == IF j < df.nrows THEN j ELSE df.nrows
    IN  [k \in 1..(last - i) |-> i + k]

\* The loop bound taken one too small: range(0, total_rows - 1, chunk_size).
InRangeOffByOne(i, total_rows) == i < total_rows - 1

\* range(0, total_rows, chunk_size) still has the element i.
InRange(i, total_rows) == i < total_rows

(***************************************************************************)
(* upload_and_analyze: the state of one request                             *)
(***************************************************************************)
VARIABLES
    pc,             \* where the handler is
    method,         \* request.method
    has_file,       \* 'file' in request.files
    raw_filename,   \* file.filename
    file_bytes,     \* the upload read by file.read(): its size and content
    filename,       \* secure_filename(file.filename)
    file_extension, \* filename.rsplit('.', 1)[1].lower()
    df,             \* <<>> for None, else <<frame>>
    report_type,    \* request.form 'report_type', lowercased
    output_format,  \* request.form 'output_format', lowercased
    page_size_str,  \* request.form 'page_size'
    download_name,
    mimetype,
    report_file,    \* <<>> for None, else <<buffer>>
    story,          \* the story generate_full_data_pdf is building
    i,              \* its loop variable
    trace,          \* the calls made so far, each with its outcome
    responses       \* the responses returned so far

vars == <<pc, method, has_file, raw_filename, file_bytes, filename, file_extension,
          df, report_type, output_format, page_size_str, download_name, mimetype,
          report_file, story, i, trace, responses>>

NoUpload == [size |-> 0, content |-> [kind |-> "empty", frame |-> Frame(<<>>, 0, TRUE)]]

Init ==
    /\ pc = "start"
    /\ method = ""
    /\ has_file = FALSE
    /\ raw_filename = <<>>
    /\ file_bytes = NoUpload
    /\ filename = <<>>
    /\ file_extension = <<>>
    /\ df = <<>>
    /\ report_type = <<>>
    /\ output_format = <<>>
    /\ page_size_str = ""
    /\ download_name = <<>>
    /\ mimetype = ""
    /\ report_file = <<>>
    /\ story = <<>>
    /\ i = 0
    /\ trace = <<>>
    /\ responses = <<>>

Call(op, out) == [op |-> op, out |-> out]

\* jsonify({'error': description}), status
ErrorResponse(status, description) ==
    [kind |-> "error", status |-> status, error |-> description,
     download_name |-> <<>>, mimetype |-> "application/json", body |-> <<>>]

\* send_file(report_file, download_name=..., as_attachment=True, mimetype=...)
FileResponse(file, name, mime) ==
    [kind |-> "file", status |-> 200, error |-> "",
     download_name |-> name, mimetype |-> mime, body |-> file]

\* render_template_string(...): the upload form.
PageResponse ==
    [kind |-> "page", status |-> 200, error |-> "",
     download_name |-> <<>>, mimetype |-> "text/html", body |-> <<>>]

\* The handler returns r: the request is over.
Return(r) ==
    /\ responses' = Append(responses, r)
    /\ pc' = "done"

\* except Exception: 'An unexpected error occurred: ...', 500
Unexpected == ErrorResponse(500, "An unexpected error occurred: ")

\* len(file_bytes) > app.config['MAX_FILE_SIZE']
TooLarge(size) == size > MAX_FILE_SIZE

(***************************************************************************)
(* The error responses of the handler                                       *)
(***************************************************************************)
NoFilePart == ErrorResponse(400, "No file part in the request")

NoSelectedFile == ErrorResponse(400, "No selected file")

TypeNotAllowed ==
    ErrorResponse(400, "File type not allowed. Please upload a CSV or Excel file.")

FileTooLarge == ErrorResponse(400, "File is too large. Max size is 150MB.")

CsvParseFailed == ErrorResponse(400, "Failed to parse CSV file: ")

ExcelParseFailed == ErrorResponse(400, "Failed to parse Excel file: ")

\* The invalid selector answered as a server error.
InvalidOutputFormatAs500 == ErrorResponse(500, "Invalid output format selected")

InvalidOutputFormat == ErrorResponse(400, "Invalid output format selected")

ReportNotGenerated == ErrorResponse(500, "Failed to generate report")

(***************************************************************************)
(* Report selection and naming                                              *)
(***************************************************************************)
\* The PDF branch: 'summary' -> generate_reportlab_pdf, 'full_data' ->
\* generate_full_data_pdf, anything else leaves report_file None.
PdfDecision(rt) ==
    IF rt = SUMMARY THEN "summary"
    ELSE IF rt = FULL_DATA THEN "full_data"
    ELSE "none"

\* generate_csv_report / generate_excel_report: 'summary' -> the summary
\* frame, anything else -> the full frame.
SheetDecision(rt) == IF rt = SUMMARY THEN "summary" ELSE "full_data"

\* The suffix with the summary test inverted in the spreadsheet branch.
SuffixSwapped(fmt, rt) ==
    IF fmt = PDF
    THEN IF rt = SUMMARY THEN <<"_", "s", "u", "m", "m", "a", "r", "y", "_", "r", "e", "p", "o", "r", "t", ".", "p", "d", "f">>
         ELSE <<"_", "f", "u", "l", "l", "_", "d", "a", "t", "a", ".", "p", "d", "f">>
    ELSE IF fmt = CSV
    THEN IF rt = SUMMARY THEN <<"_", "s", "u", "m", "m", "a", "r", "y", "_", "r", "e", "p", "o", "r", "t", ".", "c", "s", "v">>
         ELSE <<"_", "f", "u", "l", "l", "_", "d", "a", "t", "a", ".", "c", "s", "v">>
    ELSE IF rt # SUMMARY THEN <<"_", "s", "u", "m", "m", "a", "r", "y", "_", "r", "e", "p", "o", "r", "t", ".", "x", "l", "s", "x">>
         ELSE <<"_", "f", "u", "l", "l", "_", "d", "a", "t", "a", ".", "x", "l", "s", "x">>

\* The suffix appended to download_name after the report was generated.
Suffix(fmt, rt) ==
    IF fmt = PDF
    THEN IF rt = SUMMARY THEN <<"_", "s", "u", "m", "m", "a", "r", "y", "_", "r", "e", "p", "o", "r", "t", ".", "p", "d", "f">>
         ELSE <<"_", "f", "u", "l", "l", "_", "d", "a", "t", "a", ".", "p", "d", "f">>
    ELSE IF fmt = CSV
    THEN IF rt = SUMMARY THEN <<"_", "s", "u", "m", "m", "a", "r", "y", "_", "r", "e", "p", "o", "r", "t", ".", "c", "s", "v">>
         ELSE <<"_", "f", "u", "l", "l", "_", "d", "a", "t", "a", ".", "c", "s", "v">>
    ELSE IF rt = SUMMARY THEN <<"_", "s", "u", "m", "m", "a", "r", "y", "_", "r", "e", "p", "o", "r", "t", ".", "x", "l", "s", "x">>
         ELSE <<"_", "f", "u", "l", "l", "_", "d", "a", "t", "a", ".", "x", "l", "s", "x">>

MimeType(fmt) ==
    IF fmt = PDF THEN "application/pdf"
    ELSE IF fmt = CSV THEN "text/csv"
    ELSE "application/vnd.openxmlformats-officedocument.spreadsheetml.sheet"

\* page_size of the PDF branch.
PageSize(ps) ==
    IF ps = "A3" THEN "landscape(A3)"
    ELSE IF ps = "A2" THEN "landscape(A2)"
    ELSE IF ps = "A1" THEN "landscape(A1)"
    ELSE "A4"

\* df.columns = df.columns.str.strip().str.lower().str.replace(...).str.replace(...)
SanitizeColumns(columns) ==
    [k \in DOMAIN columns |-> [columns[k] EXCEPT !.name = SanitizeName(@)]]

\* The check of report_file left out.
ReportMissingUnchecked(file) == FALSE

\* `not report_file`
ReportMissing(file) == file = <<>>

(***************************************************************************)
(* upload_and_analyze, step by step                                         *)
(***************************************************************************)
\* GET: the upload form is rendered.
GetPage ==
    /\ pc = "start"
    /\ method' = "GET"
    /\ Return(PageResponse)
    /\ UNCHANGED <<has_file, raw_filename, file_bytes, filename, file_extension, df,
                   report_type, output_format, page_size_str, download_name, mimetype,
                   report_file, story, i, trace>>

\* POST: the checks made before the upload is read.
ValidateUpload ==
    /\ pc = "start"
    /\ \E present \in BOOLEAN, name \in FileNames :
          /\ present \/ name = <<>>
          /\ method' = "POST"
          /\ has_file' = present
          /\ raw_filename' = name
          /\ IF ~present
             THEN /\ trace' = Append(trace, Call("request.files", "reject"))
                  /\ Return(NoFilePart)
             ELSE IF name = <<>>
             THEN /\ trace' = Append(trace, Call("file.filename", "reject"))
                  /\ Return(NoSelectedFile)
             ELSE IF ~allowed_file(name)
             THEN /\ trace' = Append(trace, Call("allowed_file", "reject"))
                  /\ Return(TypeNotAllowed)
             ELSE /\ trace' = Append(trace, Call("allowed_file", "ok"))
                  /\ pc' = "read"
                  /\ UNCHANGED responses
    /\ UNCHANGED <<file_bytes, filename, file_extension, df, report_type, output_format,
                   page_size_str, download_name, mimetype, report_file, story, i>>

\* file.read(), the size check, secure_filename and the extension.
ReadUpload ==
    /\ pc = "read"
    /\ \E u \in Uploads :
          /\ file_bytes' = u
          /\ IF TooLarge(u.size)
             THEN /\ trace' = trace \o <<Call("file.read", "ok"), Call("size_check", "reject")>>
                  /\ Return(FileTooLarge)
                  /\ UNCHANGED <<filename, file_extension>>
             ELSE LET name == secure_filename(raw_filename)
                      parts == RSplitDot(name)
                  IN  /\ filename' = name
                      /\ IF Len(parts) < 2
                         THEN \* rsplit('.', 1)[1] raises IndexError
                              /\ trace' = trace \o <<Call("file.read", "ok"),
                                                     Call("secure_filename", "ok"),
                                                     Call("rsplit", "raise")>>
                              /\ Return(Unexpected)
                              /\ UNCHANGED file_extension
                         ELSE /\ trace' = trace \o <<Call("file.read", "ok"),
                                                     Call("secure_filename", "ok"),
                                                     Call("rsplit", "ok")>>
                              /\ file_extension' = Lower(parts[2])
                              /\ pc' = "parse"
                              /\ UNCHANGED responses
    /\ UNCHANGED <<method, has_file, raw_filename, df, report_type, output_format,
                   page_size_str, download_name, mimetype, report_file, story, i>>

\* The parser chosen by the extension; df stays None for any other one.
Parse ==
    /\ pc = "parse"
    /\ IF file_extension = CSV
       THEN LET r == read_csv(file_bytes.content)
            IN  IF r.raised
                THEN /\ trace' = Append(trace, Call("read_csv", "raise"))
                     /\ Return(CsvParseFailed)
                     /\ UNCHANGED df
                ELSE /\ trace' = Append(trace, Call("read_csv", "ok"))
                     /\ df' = r.value
                     /\ pc' = "normalize"
                     /\ UNCHANGED responses
       ELSE IF file_extension = XLSX
       THEN LET r == read_excel(file_bytes.content)
            IN  IF r.raised
                THEN /\ trace' = Append(trace, Call("read_excel", "raise"))
                     /\ Return(ExcelParseFailed)
                     /\ UNCHANGED df
                ELSE /\ trace' = Append(trace, Call("read_excel", "ok"))
                     /\ df' = r.value
                     /\ pc' = "normalize"
                     /\ UNCHANGED responses
       ELSE /\ pc' = "normalize"
            /\ UNCHANGED <<df, trace, responses>>
    /\ UNCHANGED <<method, has_file, raw_filename, file_bytes, filename, file_extension,
                   report_type, output_format, page_size_str, download_name, mimetype,
                   report_file, story, i>>

\* "Sanitize column names": df.columns raises AttributeError when df is None,
\* and .str raises it when the column labels are not strings.
Normalize ==
    /\ pc = "normalize"
    /\ IF df = <<>> \/ ~df[1].strcols
       THEN /\ trace' = Append(trace, Call("sanitize", "raise"))
            /\ Return(Unexpected)
            /\ UNCHANGED df
       ELSE /\ trace' = Append(trace, Call("sanitize", "ok"))
            /\ df' = <<[df[1] EXCEPT !.columns = SanitizeColumns(@)]>>
            /\ pc' = "dispatch"
            /\ UNCHANGED responses
    /\ UNCHANGED <<method, has_file, raw_filename, file_bytes, filename, file_extension,
                   report_type, output_format, page_size_str, download_name, mimetype,
                   report_file, story, i>>

\* The form is read and the branch of output_format is taken, up to the call
\* of the generator.
Dispatch ==
    /\ pc = "dispatch"
    /\ \E rt \in ReportTypes, fmt \in OutputFormats, ps \in PageSizes :
          /\ report_type' = Lower(rt)
          /\ output_format' = Lower(fmt)
          /\ page_size_str' = ps
          /\ download_name' = RSplitDot(filename)[1]
          /\ trace' = IF Lower(fmt) \in {PDF, CSV, EXCEL}
                       THEN trace
                       ELSE Append(trace, Call("output_format", "reject"))
          /\ IF Lower(fmt) = PDF
             THEN /\ IF PdfDecision(Lower(rt)) = "summary"
                     THEN pc' = "summary_pdf" /\ mimetype' = "application/octet-stream"
                     ELSE IF PdfDecision(Lower(rt)) = "full_data"
                     THEN pc' = "full_pdf" /\ mimetype' = "application/octet-stream"
                     ELSE pc' = "respond" /\ mimetype' = MimeType(PDF)
                  /\ UNCHANGED responses
             ELSE IF Lower(fmt) = CSV
             THEN /\ pc' = "csv_report"
                  /\ mimetype' = "application/octet-stream"
                  /\ UNCHANGED responses
             ELSE IF Lower(fmt) = EXCEL
             THEN /\ pc' = "excel_report"
                  /\ mimetype' = "application/octet-stream"
                  /\ UNCHANGED responses
             ELSE /\ mimetype' = "application/octet-stream"
                  /\ Return(InvalidOutputFormat)
    /\ UNCHANGED <<method, has_file, raw_filename, file_bytes, filename, file_extension,
                   df, report_file, story, i>>

\* What every generator step leaves alone.
RequestUnchanged ==
    UNCHANGED <<method, has_file, raw_filename, file_bytes, filename, file_extension,
                df, report_type, output_format, page_size_str>>

\* A generator raised: the handler's `except Exception` answers.
Fail(calls) ==
    /\ trace' = trace \o calls
    /\ Return(Unexpected)
    /\ UNCHANGED <<download_name, mimetype, report_file>>

\* A generator returned file: the name and MIME type of the branch are set.
Generated(calls, file) ==
    /\ trace' = trace \o calls
    /\ report_file' = <<file>>
    /\ download_name' = download_name \o Suffix(output_format, report_type)
    /\ mimetype' = MimeType(output_format)
    /\ pc' = "respond"
    /\ UNCHANGED responses

\* generate_reportlab_pdf(df, filename); doc.build raises (LayoutError) when
\* the table does not fit the page.
GenerateReportlabPdf ==
    /\ pc = "summary_pdf"
    /\ LET st == SummaryStory(df[1])
       IN  IF st.raised
           THEN Fail(<<Call("generate_summary_df", "raise"),
                       Call("generate_reportlab_pdf", "raise")>>)
           ELSE \E fits \in BOOLEAN :
                   IF fits
                   THEN Generated(<<Call("generate_summary_df", "ok"),
                                    Call("generate_reportlab_pdf", "ok")>>,
                                  Buffer("pdf", "summary", "A4", st.value[1], <<>>, <<>>, 0))
                   ELSE Fail(<<Call("generate_summary_df", "ok"),
                               Call("generate_reportlab_pdf", "raise")>>)
    /\ UNCHANGED <<story, i>>
    /\ RequestUnchanged

\* generate_full_data_pdf up to its loop: title, timestamp and header table.
FullDataPdfHeader ==
    /\ pc = "full_pdf"
    /\ LET header_data == <<Names(df[1].columns)>>
       IN  IF TableRaises(Len(header_data), Len(header_data[1]))
           THEN /\ Fail(<<Call("generate_full_data_pdf", "raise")>>)
                /\ UNCHANGED <<story, i>>
           ELSE /\ story' = <<Paragraph("Full Data Report"), Paragraph("Generated on"),
                              Spacer, Table(header_data)>>
                /\ i' = 0
                /\ pc' = "full_pdf_loop"
                /\ UNCHANGED <<trace, responses, download_name, mimetype, report_file>>
    /\ RequestUnchanged

\* One iteration of `for i in range(0, total_rows, chunk_size)`.
FullDataPdfChunk ==
    /\ pc = "full_pdf_loop"
    /\ InRange(i, df[1].nrows)
    /\ LET chunk_data == Iloc(df[1], i, i + chunk_size)
       IN  IF TableRaises(Len(chunk_data), Len(df[1].columns))
           THEN /\ Fail(<<Call("generate_full_data_pdf", "raise")>>)
                /\ UNCHANGED <<story, i>>
           ELSE /\ story' = Append(story, Table(chunk_data))
                /\ i' = i + chunk_size
                /\ UNCHANGED <<pc, trace, responses, download_name, mimetype, report_file>>
    /\ RequestUnchanged

\* The loop is over: doc.build(story), and the buffer is returned.
FullDataPdfBuild ==
    /\ pc = "full_pdf_loop"
    /\ ~InRange(i, df[1].nrows)
    /\ \E fits \in BOOLEAN :
          IF fits
          THEN Generated(<<Call("generate_full_data_pdf", "ok")>>,
                         Buffer("pdf", "full_data", PageSize(page_size_str), story,
                                <<>>, <<>>, 0))
          ELSE Fail(<<Call("generate_full_data_pdf", "raise")>>)
    /\ UNCHANGED <<story, i>>
    /\ RequestUnchanged

\* generate_csv_report / generate_excel_report: the summary frame or the full
\* frame is written without its index.
SheetReport(format, generator) ==
    IF SheetDecision(report_type) = "summary"
    THEN LET s == generate_summary_df(df[1])
         IN  IF s.raised
             THEN Fail(<<Call("generate_summary_df", "raise"), Call(generator, "raise")>>)
             ELSE Generated(<<Call("generate_summary_df", "ok"), Call(generator, "ok")>>,
                            Buffer(format, "summary", "", <<>>, s.value[1].columns,
                                   s.value[1].stats, Len(s.value[1].stats)))
    ELSE Generated(<<Call(generator, "ok")>>,
                   Buffer(format, "full_data", "", <<>>, Names(df[1].columns), <<>>,
                          df[1].nrows))

GenerateCsvReport ==
    /\ pc = "csv_report"
    /\ SheetReport("csv", "generate_csv_report")
    /\ UNCHANGED <<story, i>>
    /\ RequestUnchanged

GenerateExcelReport ==
    /\ pc = "excel_report"
    /\ SheetReport("xlsx", "generate_excel_report")
    /\ UNCHANGED <<story, i>>
    /\ RequestUnchanged

\* `if not report_file: ... 500`, else send_file.
Respond ==
    /\ pc = "respond"
    /\ IF ReportMissing(report_file)
       THEN /\ trace' = Append(trace, Call("report_file", "reject"))
            /\ Return(ReportNotGenerated)
       ELSE /\ trace' = Append(trace, Call("send_file", "ok"))
            /\ Return(FileResponse(report_file, download_name, mimetype))
    /\ UNCHANGED <<story, i, download_name, mimetype, report_file>>
    /\ RequestUnchanged

Next ==
    \/ GetPage
    \/ ValidateUpload
    \/ ReadUpload
    \/ Parse
    \/ Normalize
    \/ Dispatch
    \/ GenerateReportlabPdf
    \/ FullDataPdfHeader
    \/ FullDataPdfChunk
    \/ FullDataPdfBuild
    \/ GenerateCsvReport
    \/ GenerateExcelReport
    \/ Respond

Spec == Init /\ [][Next]_vars

(***************************************************************************)
(* Properties                                                               *)
(***************************************************************************)
Parsers == {"read_csv", "read_excel"}

ReportGenerators ==
    {"generate_reportlab_pdf", "generate_full_data_pdf", "generate_csv_report",
     "generate_excel_report"}

Called == {trace[k].op : k \in DOMAIN trace}

\* The extension of a raw file name is not csv or xlsx (in any case), or the
\* name has none.
ExtensionOutside(name) ==
    \/ Positions(name, ".") = {}
    \/ Lower(Slice(name, Max(Positions(name, ".")) + 1, Len(name))) \notin {CSV, XLSX}

\* The upload of a POST request is missing, unnamed, of a wrong type or too
\* large.
RejectedUpload ==
    /\ method = "POST"
    /\ \/ ~has_file
       \/ raw_filename = <<>>
       \/ ExtensionOutside(raw_filename)
       \/ file_bytes.size > MAX_FILE_SIZE

\* C1: a POST request whose upload is missing, has an empty file name, has an
\* extension outside {csv, xlsx} or is longer than MAX_FILE_SIZE is answered
\* with an error of status 400, and no parser and no report generator was
\* called: no report exists.
C1_RejectedBeforeParsing ==
    RejectedUpload =>
        /\ pc = "done"
        /\ Len(responses) = 1
        /\ responses[1].kind = "error"
        /\ responses[1].status = 400
        /\ Called \cap (Parsers \cup ReportGenerators \cup {"generate_summary_df"}) = {}
        /\ report_file = <<>>
        /\ df = <<>>

\* An oversized upload with an allowed name was read and rejected.
C1_Witness ==
    /\ pc = "done"
    /\ method = "POST"
    /\ ~ExtensionOutside(raw_filename)
    /\ file_bytes.size = MAX_FILE_SIZE + 1
    /\ responses[1].status = 400
    /\ "file.read" \in Called

\* The finished full-data PDF of the request, if any.
HasFullDataPdf ==
    /\ report_file # <<>>
    /\ report_file[1].format = "pdf"
    /\ report_file[1].report = "full_data"

TablesOf(st) == {k \in DOMAIN st : st[k].type = "Table"}

\* The tables of a full-data story after the header table.
DataChunks(st) == Cardinality(TablesOf(st)) - 1

\* C2 as stated: more than 5000 rows give more than one data-chunk table, and
\* any row count from 0 to 5000 gives exactly one.
C2_Original ==
    HasFullDataPdf =>
        /\ df[1].nrows > 5000 => DataChunks(report_file[1].story) > 1
        /\ df[1].nrows <= 5000 => DataChunks(report_file[1].story) = 1

\* C2, amended: in the story of generate_full_data_pdf the header table comes
\* first; more than 5000 rows give more than one data-chunk table, 1 to 5000
\* rows give exactly one, and a frame without rows gives none.
C2_ChunkCount ==
    HasFullDataPdf =>
        LET st == report_file[1].story
        IN  /\ TablesOf(st) # {}
            /\ st[Min(TablesOf(st))].data = <<Names(df[1].columns)>>
            /\ df[1].nrows > 5000 => DataChunks(st) > 1
            /\ (1 <= df[1].nrows /\ df[1].nrows <= 5000) => DataChunks(st) = 1
            /\ df[1].nrows = 0 => DataChunks(st) = 0

\* A frame of 5001 rows was rendered as a header table and two chunks.
C2_Witness ==
    /\ HasFullDataPdf
    /\ df[1].nrows = 5001
    /\ DataChunks(report_file[1].story) = 2

\* The column names were sanitised.
Sanitized == \E k \in DOMAIN trace : trace[k] = Call("sanitize", "ok")

\* C3: after the sanitisation step of a successfully parsed upload every
\* column name is non-empty and consists only of characters in [a-z0-9_].
C3_NamesWellFormed ==
    Sanitized =>
        \A c \in DOMAIN df[1].columns :
            /\ df[1].columns[c].name # <<>>
            /\ Range(df[1].columns[c].name) \subseteq WordChars

\* C4: the column names of the frame produced by ingestion are pairwise
\* distinct after normalisation.
C4_NamesDistinct ==
    Sanitized =>
        \A c, d \in DOMAIN df[1].columns :
            c # d => df[1].columns[c].name # df[1].columns[d].name

\* generate_summary_df was called on the frame of the request.
Summarized == "generate_summary_df" \in Called

\* C5: for every frame, generate_summary_df returns the statistic rows count,
\* mean, std, min, 25%, 50%, 75%, max in that order, with one value column
\* per numeric source column and none for a non-numeric one.
C5_SummaryShape ==
    Summarized =>
        LET s == generate_summary_df(df[1])
        IN  ~s.raised =>
            /\ s.value[1].stats = NumericStats
            /\ s.value[1].columns
                 = <<STATISTIC>> \o Names(SelectKind(df[1].columns, "num"))

\* C6: for a frame without numeric columns generate_summary_df returns an
\* empty summary frame and does not raise: the summary PDF holds the note
\* 'No numeric columns found.' and no table, and a summary CSV or spreadsheet
\* is produced.
C6_NoNumericColumns ==
    (Summarized /\ SelectKind(df[1].columns, "num") = <<>>) =>
        LET s == generate_summary_df(df[1])
        IN  /\ ~s.raised
            /\ IsEmpty(s.value[1])
            /\ \A k \in DOMAIN trace :
                  trace[k].op = "generate_summary_df" => trace[k].out = "ok"
            /\ (report_file # <<>> /\ report_file[1].format = "pdf") =>
                  /\ TablesOf(report_file[1].story) = {}
                  /\ \E k \in DOMAIN report_file[1].story :
                        report_file[1].story[k] = Paragraph("No numeric columns found.")
            /\ (pc = "done" /\ output_format \in {CSV, EXCEL}) =>
                  responses[1].kind = "file"

\* A response that returns a file.
ReturnsFile == Len(responses) = 1 /\ responses[1].kind = "file"

UnexpectedFailure ==
    \E k \in DOMAIN trace : trace[k].out = "raise" /\ trace[k].op \notin Parsers

\* C8: an error response has a non-empty description and status 400 or 500;
\* a missing or unnamed upload, a wrong extension, an oversized file,
\* unparseable content and an invalid output_format are answered with 400,
\* and 500 only follows an unexpected failure or a report_file that was never
\* produced.
C8_ErrorStatus ==
    (Len(responses) = 1 /\ responses[1].kind = "error") =>
        /\ responses[1].error # ""
        /\ responses[1].status \in {400, 500}
        /\ RejectedUpload => responses[1].status = 400
        /\ (\E k \in DOMAIN trace : trace[k].op \in Parsers /\ trace[k].out = "raise")
              => responses[1].status = 400
        /\ (output_format # <<>> /\ output_format \notin {PDF, CSV, EXCEL})
              => responses[1].status = 400
        /\ responses[1].status = 500 =>
              \/ UnexpectedFailure
              \/ ("report_file" \in Called /\ report_file = <<>>)

\* A parsed upload with an invalid output_format was answered with 400.
C8_Witness ==
    /\ pc = "done"
    /\ Sanitized
    /\ output_format = <<"x", "m", "l">>
    /\ responses[1].kind = "error"
    /\ responses[1].status = 400

\* What the request produced: the summary, the full data, or no report.
Outcome == IF report_file = <<>> THEN "none" ELSE report_file[1].report

\* No call raised.
NothingRaised == \A k \in DOMAIN trace : trace[k].out # "raise"

\* C9: for every report_type the CSV and spreadsheet renderers decide as the
\* PDF path does: summary, full data, or no report.
C9_SameSwitch ==
    (pc \in {"respond", "done"} /\ output_format \in {CSV, EXCEL} /\ NothingRaised) =>
        Outcome = PdfDecision(report_type)

\* The pipeline stage a call belongs to: 0 the checks before the upload is
\* read, 1 ingest, 2 normalize, 3 render (summarize inside it), 4 respond.
StageOf(op) ==
    IF op \in {"request.files", "file.filename", "allowed_file"} THEN 0
    ELSE IF op \in {"file.read", "size_check", "secure_filename", "rsplit"} \cup Parsers THEN 1
    ELSE IF op = "sanitize" THEN 2
    ELSE IF op \in {"output_format", "generate_summary_df"} \cup ReportGenerators THEN 3
    ELSE 4

CallsOf(ops) == {k \in DOMAIN trace : trace[k].op \in ops}

\* The report of a buffer is whole: a built PDF story with all its tables (the
\* chunks of a full-data story hold every row of the frame), or the whole
\* frame written as CSV or spreadsheet.
RECURSIVE RowsIn(_)
RowsIn(st) ==
    IF st = <<>> THEN 0
    ELSE (IF Head(st).type = "Table" THEN Len(Head(st).data) ELSE 0) + RowsIn(Tail(st))

Complete(file) ==
    IF file.format = "pdf"
    THEN IF file.report = "full_data"
         THEN RowsIn(file.story) = 1 + df[1].nrows
         ELSE \E k \in DOMAIN file.story :
                 \/ file.story[k].type = "Table"
                 \/ file.story[k] = Paragraph("No numeric columns found.")
    ELSE IF file.report = "full_data"
         THEN file.nrows = df[1].nrows /\ file.columns = Names(df[1].columns)
         ELSE file.nrows = Len(file.labels) /\ file.columns # <<>>

\* C10: in the handling of a POST request the stages run at most once each
\* and in the order ingest, normalize, render (summarize inside it), respond;
\* after a failed stage no later stage runs and nothing is retried; the
\* request ends with exactly one response, a complete report file or an error
\* message, never a partial report and never both.
C10_LinearPipeline ==
    method # "GET" =>
        /\ \A j, k \in DOMAIN trace :
              j < k => StageOf(trace[j].op) <= StageOf(trace[k].op)
        /\ \A ops \in {{"file.read"}, Parsers, {"sanitize"}, {"generate_summary_df"},
                       ReportGenerators, {"send_file"}} :
              Cardinality(CallsOf(ops)) <= 1
        /\ \A k \in CallsOf({"generate_summary_df"}) :
              /\ k < Len(trace)
              /\ trace[k + 1].op \in ReportGenerators
        /\ \A k \in DOMAIN trace :
              trace[k].out # "ok" =>
                  /\ pc = "done"
                  /\ responses[1].kind = "error"
                  /\ \/ k = Len(trace)
                     \/ /\ k + 1 = Len(trace)
                        /\ trace[k].op = "generate_summary_df"
                        /\ trace[k + 1].out = "raise"
        /\ Len(responses) <= 1
        /\ (pc = "done") <=> (Len(responses) = 1)
        /\ pc = "done" =>
              /\ responses[1].kind \in {"file", "error"}
              /\ responses[1].kind = "file" =>
                    /\ \A k \in DOMAIN trace : trace[k].out = "ok"
                    /\ \A ops \in {{"file.read"}, Parsers, {"sanitize"}, ReportGenerators,
                                   {"send_file"}} :
                          Cardinality(CallsOf(ops)) = 1
                    /\ trace[Len(trace)].op = "send_file"
                    /\ responses[1].body # <<>>
                    /\ responses[1].body = report_file
                    /\ Complete(responses[1].body[1])
                    /\ responses[1].error = ""
              /\ responses[1].kind = "error" =>
                    /\ responses[1].body = <<>>
                    /\ "send_file" \notin Called
                    /\ trace[Len(trace)].out # "ok"

\* A full-data PDF of 10000 rows went through every stage and was returned.
C10_Witness ==
    /\ pc = "done"
    /\ method = "POST"
    /\ responses[1].kind = "file"
    /\ HasFullDataPdf
    /\ df[1].nrows = 2 * chunk_size
    /\ DataChunks(responses[1].body[1].story) = 2

\* The data of the tables of a story after its first (the header) table, in
\* story order.
ChunksOf(st) ==
    LET tables == TablesOf(st)
        later == {k \in tables : k > Min(tables)}
        nth[n \in 0..Cardinality(later)] ==
            IF n = 0 THEN <<>>
            ELSE LET k == CHOOSE x \in later : Cardinality({y \in later : y < x}) = n - 1
                 IN  Append(nth[n - 1], st[k].data)
    IN  IF tables = {} THEN <<>> ELSE nth[Cardinality(later)]

RECURSIVE Concat(_)
Concat(seqs) == IF seqs = <<>> THEN <<>> ELSE Head(seqs) \o Concat(Tail(seqs))

\* The header table is the first table and holds the column names alone;
\* the chunks after it hold rows 1..upto of the frame, in order, 1 to 5000
\* rows each and exactly 5000 in all but the last.
ChunkedRows(st, upto) ==
    LET chunks == ChunksOf(st)
    IN  /\ TablesOf(st) # {}
        /\ st[Min(TablesOf(st))].data = <<Names(df[1].columns)>>
        /\ \A c \in DOMAIN chunks :
              /\ 1 <= Len(chunks[c])
              /\ Len(chunks[c]) <= 5000
              /\ c < Len(chunks) => Len(chunks[c]) = 5000
        /\ Concat(chunks) = [k \in 1..upto |-> k]

\* C11: in generate_full_data_pdf the data-chunk tables appended after the
\* header-only table hold between 1 and 5000 rows each, every chunk but
\* possibly the last holds exactly 5000, and the chunks concatenated in story
\* order are the rows of the frame in their original order, none omitted,
\* duplicated or reordered; the header table holds only the column names.
\* While the loop runs the chunks are the rows before its index i.
C11_ChunksPartitionRows ==
    /\ pc = "full_pdf_loop" =>
          ChunkedRows(story, IF i < df[1].nrows THEN i ELSE df[1].nrows)
    /\ HasFullDataPdf => ChunkedRows(report_file[1].story, df[1].nrows)

\* A frame of 10001 rows was rendered as chunks of 5000, 5000 and 1 rows.
C11_Witness ==
    /\ HasFullDataPdf
    /\ df[1].nrows = 2 * chunk_size + 1
    /\ Len(ChunksOf(report_file[1].story)) = 3
    /\ Len(ChunksOf(report_file[1].story)[3]) = 1
    /\ ChunksOf(report_file[1].story)[3][1] = df[1].nrows

\* The upload of a POST request passed allowed_file and the size check, so
\* the handler went on to secure_filename and the extension.
NameAccepted ==
    /\ method = "POST"
    /\ has_file
    /\ raw_filename # <<>>
    /\ allowed_file(raw_filename)
    /\ "secure_filename" \in Called

\* C12: for an upload whose raw file name passes allowed_file, the extension
\* taken from the secure_filename-sanitised name exists and is the extension
\* allowed_file checked, so the request reaches read_csv or read_excel, the
\* frame is not None afterwards, and no 500 response comes from the handling
\* of the file name.
C12_ExtensionSurvives ==
    NameAccepted =>
        /\ Call("rsplit", "ok") \in Range(trace)
        /\ file_extension = Lower(RSplitDot(raw_filename)[2])
        /\ file_extension \in {CSV, XLSX}
        /\ pc \notin {"read", "parse"} =>
              /\ Called \cap Parsers # {}
              /\ (Call("read_csv", "ok") \in Range(trace)
                    \/ Call("read_excel", "ok") \in Range(trace)) => df # <<>>
        /\ (pc = "done" /\ responses[1].status = 500) =>
              Called \cap Parsers # {}

====
